---- MODULE Spec2Model ----
(***************************************************************************)
(* Noise-injection pipeline of dotg: NoiseModel construction, the          *)
(* instruction-by-instruction pass of NoiseModel.permute_circuit, circuit  *)
(* layering and the idle-noise pass.                                       *)
(*                                                                         *)
(* A stim.Circuit is the sequence of the instructions appended to it; an   *)
(* instruction is a record [name, targets, args].  Probabilities are       *)
(* integers in thousandths (One stands for 1.0).  A noise parameter is a   *)
(* record [tuple, val]: a Python number p is [tuple |-> FALSE,             *)
(* val |-> <<p>>], a Python tuple t is [tuple |-> TRUE, val |-> t].        *)
(***************************************************************************)
EXTENDS Integers, Sequences, FiniteSets, TLC

VARIABLES
    args,           \* the keyword arguments of NoiseModel(...)
    model,          \* the NoiseModel's five attributes pairs
    error,          \* the exception raised, "" when none
    circuit,        \* the input circuit of the call
    noisy_circuit,  \* permute_circuit's local noisy_circuit
    idx,            \* number of input instructions the for loop has consumed
    pc,             \* position of the program
    result,         \* the circuit the call returned
    dem,            \* the detector error model of the circuit, a list of events
    parity_check,   \* _understand_circuit's parity_check, a list of rows
    logical_check,  \* _understand_circuit's logical_check, a list of rows
    error_probabilities,  \* _understand_circuit's error_probabilities
    num_shots,      \* the shot budget of Sampler.__call__ / DecoderManager.run
    exclude_empty,  \* Sampler.__call__'s exclude_empty
    batch,          \* the shots detector_sampler.sample returned last
    syndrome_batch, \* Sampler.__call__'s syndrome_batch
    observable_batch,  \* Sampler.__call__'s observable_batch
    cores,          \* DecoderManager.cores
    workers,        \* the tasks of pool.map: shots handed over, state, value
    decoder_options,  \* a decoder's decoder_options attribute
    decoder,        \* a decoder's _decoder, the object of the ldpc package
    syndrome,       \* update_syndrome_from_error_pattern's syndrome
    error_pattern   \* update_syndrome_from_error_pattern's error_pattern

\* the state of CircuitUnderstander._understand_circuit
extractor == <<dem, parity_check, logical_check, error_probabilities>>

\* the state of Sampler.__call__
sampling == <<num_shots, exclude_empty, batch, syndrome_batch, observable_batch>>

\* the state of DecoderManager.run
managing == <<cores, workers>>

\* the state of the belief-propagation decoders
decoding == <<decoder_options, decoder, syndrome, error_pattern>>

\* the state of the sampling and decoding layer
later == <<sampling, managing, decoding>>

vars == <<args, model, error, circuit, noisy_circuit, idx, pc, result, extractor,
          later>>

\* no error model has been taken
NoExtraction ==
    /\ dem = <<>>
    /\ parity_check = <<>>
    /\ logical_check = <<>>
    /\ error_probabilities = <<>>

\* nothing is being sampled
NoSampling ==
    /\ num_shots = 0
    /\ exclude_empty = FALSE
    /\ batch = <<>>
    /\ syndrome_batch = <<>>
    /\ observable_batch = <<>>

\* no DecoderManager is running
NoManaging ==
    /\ cores = 0
    /\ workers = <<>>

\* no decoder exists
NoDecoding ==
    /\ decoder_options = "None"
    /\ decoder = "None"
    /\ syndrome = <<>>
    /\ error_pattern = <<>>

NoLater == NoSampling /\ NoManaging /\ NoDecoding

\* ------------------------------------------------------------------ bounds
MaxLen == 3

\* 1.0 in thousandths: the upper end of `0 <= _param < 1`
One == 1000

\* ------------------------------------------------------- stim enumerations
OneQubitGates ==
    {"I", "X", "Y", "Z", "H", "S", "S_DAG", "SQRT_X", "SQRT_X_DAG",
     "SQRT_Y", "SQRT_Y_DAG", "SQRT_Z", "SQRT_Z_DAG"}

TwoQubitGates == {"CX", "CY", "CZ", "SQRT_XX"}

ResetGates == {"R", "RX", "RZ", "RY"}

MeasurementGates == {"M", "MX", "MZ", "MY"}

MeasureAndReset == {"MR"}

StimDecorators == {"DETECTOR", "OBSERVABLE_INCLUDE", "QUBIT_COORDS", "TICK"}

OneQubitNoiseChannels ==
    {"DEPOLARIZE1", "PAULI_CHANNEL_1", "X_ERROR", "Y_ERROR", "Z_ERROR"}

TwoQubitNoiseChannels == {"DEPOLARIZE2", "PAULI_CHANNEL_2"}

\* ------------------------------------------------------------ instructions
Instr(n, t, a) == [name |-> n, targets |-> t, args |-> a]

\* stim stores a gate under its canonical name: MZ is M, RZ is R, CNOT is CX
StimName(n) ==
    CASE n = "MZ" -> "M"
      [] n = "RZ" -> "R"
      [] n = "CNOT" -> "CX"
      [] OTHER -> n

\* circuit.append(name=..., targets=..., arg=...)
CircuitAppend(c, n, t, a) == Append(c, Instr(StimName(n), t, a))

\* ---------------------------------------------------------- noise parameters
Scalar(p) == [tuple |-> FALSE, val |-> <<p>>]

Tup(n, p) == [tuple |-> TRUE, val |-> [i \in 1..n |-> p]]

\* Python truth value of a parameter: a number is true when it is not 0, a
\* tuple when it is not empty
Truthy(param) ==
    IF param.tuple THEN Len(param.val) > 0 ELSE param.val[1] # 0

\* a constructor argument: None, or the pair (channel, param)
None == [given |-> FALSE, channel |-> "", param |-> Scalar(0)]

Pair(ch, param) == [given |-> TRUE, channel |-> ch, param |-> param]

\* ---------------------------------------------------------------- NoiseModel
SlotNames ==
    <<"two_qubit_gate_noise", "one_qubit_gate_noise", "reset_noise", "idle_noise">>

\* mutant: only the two-qubit slot is tested
IllegalPairingTwoQubitOnly(slot, ch) ==
    slot = "two_qubit_gate_noise" /\ ch \notin TwoQubitNoiseChannels

\* the pairing test of _is_legal_noise_model for one argument
IllegalPairing(slot, ch) ==
    \/ slot = "two_qubit_gate_noise" /\ ch \notin TwoQubitNoiseChannels
    \/ slot # "two_qubit_gate_noise" /\ ch \notin OneQubitNoiseChannels

\* mutant: the upper end of the range is closed
IllegalScalarClosedRange(param) ==
    /\ ~param.tuple
    /\ ~(0 <= param.val[1] /\ param.val[1] <= One)

\* the range test: only a float or an int is tested
IllegalScalar(param) ==
    /\ ~param.tuple
    /\ ~(0 <= param.val[1] /\ param.val[1] < One)

\* the Pauli-channel test
IllegalPauliParam(ch, param) ==
    /\ ch \in {"PAULI_CHANNEL_1", "PAULI_CHANNEL_2"}
    /\ (~param.tuple \/ Len(param.val) \notin {3, 15})

\* the error the loop body raises for one argument, "" when it raises none
SlotError(slot, a) ==
    IF ~a.given THEN ""
    ELSE IF IllegalPairing(slot, a.channel) THEN "Invalid gate/noise pairing"
    ELSE IF IllegalScalar(a.param) THEN "Invalid noise parameter"
    ELSE IF IllegalPauliParam(a.channel, a.param) THEN "Pauli channel tuple"
    ELSE ""

IllegalMeasurement(m) == ~(0 <= m /\ m < One)

\* _is_legal_noise_model: the first error in argument order, "" when legal
RECURSIVE FirstSlotError(_, _)
FirstSlotError(a, k) ==
    IF k > Len(SlotNames) THEN ""
    ELSE IF SlotError(SlotNames[k], a[SlotNames[k]]) # ""
         THEN SlotError(SlotNames[k], a[SlotNames[k]])
         ELSE FirstSlotError(a, k + 1)

is_legal_noise_model(a) ==
    IF FirstSlotError(a, 1) # "" THEN FirstSlotError(a, 1)
    ELSE IF IllegalMeasurement(a.measurement_noise)
         THEN "Invalid measurement flip value"
         ELSE ""

\* the attribute pairs __init__ assigns
SlotValue(a, ch) ==
    IF a.given THEN [channel |-> a.channel, param |-> a.param]
    ELSE [channel |-> ch, param |-> Scalar(0)]

NewNoiseModel(a) ==
    [two_qubit_gate_noise |-> SlotValue(a.two_qubit_gate_noise, "DEPOLARIZE2"),
     one_qubit_gate_noise |-> SlotValue(a.one_qubit_gate_noise, "DEPOLARIZE1"),
     reset_noise          |-> SlotValue(a.reset_noise, "DEPOLARIZE1"),
     idle_noise           |-> SlotValue(a.idle_noise, "DEPOLARIZE1"),
     measurement_noise_parameter |-> a.measurement_noise]

\* no NoiseModel object exists
NoModel == NewNoiseModel([two_qubit_gate_noise |-> None, one_qubit_gate_noise |-> None,
                          reset_noise |-> None, idle_noise |-> None,
                          measurement_noise |-> 0])

Kwargs(tq, oq, rs, id, ms) ==
    [two_qubit_gate_noise |-> tq, one_qubit_gate_noise |-> oq,
     reset_noise |-> rs, idle_noise |-> id, measurement_noise |-> ms]

\* ----------------------------------------------- construction: NoiseModel(...)
CtorParams ==
    {Scalar(0 - 1), Scalar(0), Scalar(10), Scalar(One),
     Tup(0, 1), Tup(2, 1), Tup(3, 1), Tup(15, 1)}

CtorChannels == {"DEPOLARIZE1", "PAULI_CHANNEL_1", "DEPOLARIZE2", "PAULI_CHANNEL_2"}

WideSlot == {None} \cup {Pair(ch, p) : ch \in CtorChannels, p \in CtorParams}

NarrowSlot ==
    {None, Pair("Y_ERROR", Scalar(1)), Pair("X_ERROR", Scalar(One)),
     Pair("DEPOLARIZE2", Scalar(1)), Pair("PAULI_CHANNEL_1", Tup(15, 1))}

CtorArgs ==
    {Kwargs(tq, oq, rs, id, ms) :
        tq \in WideSlot, oq \in WideSlot, rs \in NarrowSlot, id \in NarrowSlot,
        ms \in {0 - 1, 0, 10, One}}

InitCtor ==
    /\ pc = "new"
    /\ args \in CtorArgs
    /\ model = NoModel
    /\ error = ""
    /\ circuit = <<>>
    /\ noisy_circuit = <<>>
    /\ idx = 0
    /\ result = <<>>
    /\ NoExtraction
    /\ NoLater

\* __init__ returns: the arguments are legal
Construct ==
    /\ pc = "new"
    /\ is_legal_noise_model(args) = ""
    /\ model' = NewNoiseModel(args)
    /\ pc' = "constructed"
    /\ UNCHANGED <<args, error, circuit, noisy_circuit, idx, result, extractor, later>>

\* __init__ raises ValueError out of _is_legal_noise_model
ConstructRaises ==
    /\ pc = "new"
    /\ is_legal_noise_model(args) # ""
    /\ error' = is_legal_noise_model(args)
    /\ pc' = "ValueError"
    /\ UNCHANGED <<args, model, circuit, noisy_circuit, idx, result, extractor, later>>

NextCtor == Construct \/ ConstructRaises

SpecCtor == InitCtor /\ [][NextCtor]_vars

\* ------------------------------------------------------- the first pass
\* mutant: a zero measurement parameter is passed as no argument
MeasurementArgDropsZero(m) ==
    IF m.measurement_noise_parameter = 0 THEN <<>>
    ELSE <<m.measurement_noise_parameter>>

\* arg=self._measurement_noise_parameter
MeasurementArg(m) == <<m.measurement_noise_parameter>>

\* mutant: the TICK between the measurement and the reset is left out
measurement_and_reset_without_tick(m, c, instr) ==
    LET c1 == CircuitAppend(c, "MZ", instr.targets, MeasurementArg(m))
        c3 == CircuitAppend(c1, "RZ", instr.targets, <<>>)
    IN  IF Truthy(m.reset_noise.param)
        THEN CircuitAppend(c3, m.reset_noise.channel, instr.targets,
                           m.reset_noise.param.val)
        ELSE c3

\* _measurement_and_reset_instruction
measurement_and_reset_instruction(m, c, instr) ==
    LET c1 == CircuitAppend(c, "MZ", instr.targets, MeasurementArg(m))
        c2 == CircuitAppend(c1, "TICK", <<>>, <<>>)
        c3 == CircuitAppend(c2, "RZ", instr.targets, <<>>)
    IN  IF Truthy(m.reset_noise.param)
        THEN CircuitAppend(c3, m.reset_noise.channel, instr.targets,
                           m.reset_noise.param.val)
        ELSE c3

\* mutant: an argument the instruction already carries is kept
measurement_instruction_keeps_arg(m, c, instr) ==
    IF instr.name = "MR"
    THEN measurement_and_reset_instruction(m, c, instr)
    ELSE CircuitAppend(c, instr.name, instr.targets,
                       IF instr.args # <<>> THEN instr.args ELSE MeasurementArg(m))

\* _measurement_instruction
measurement_instruction(m, c, instr) ==
    IF instr.name = "MR"
    THEN measurement_and_reset_instruction(m, c, instr)
    ELSE CircuitAppend(c, instr.name, instr.targets, MeasurementArg(m))

\* mutant: the channel is emitted whatever the parameter
NoiseAfterAlways(m, c, instr, gates, slot) ==
    IF instr.name \in gates
    THEN CircuitAppend(c, m[slot].channel, instr.targets, m[slot].param.val)
    ELSE c

\* one `if` of _gate_instruction: the noise of `slot` after a gate of `gates`
NoiseAfter(m, c, instr, gates, slot) ==
    IF instr.name \in gates /\ Truthy(m[slot].param)
    THEN CircuitAppend(c, m[slot].channel, instr.targets, m[slot].param.val)
    ELSE c

\* mutant: every gate that is not a one-qubit gate gets the two-qubit noise
gate_instruction_default_two_qubit(m, c, instr) ==
    LET c1 == NoiseAfter(m, c, instr, OneQubitGates, "one_qubit_gate_noise")
        c2 == NoiseAfter(m, c1, instr, {instr.name} \ (OneQubitGates \cup ResetGates),
                         "two_qubit_gate_noise")
    IN  NoiseAfter(m, c2, instr, ResetGates, "reset_noise")

\* _gate_instruction
gate_instruction(m, c, instr) ==
    LET c1 == NoiseAfter(m, c, instr, OneQubitGates, "one_qubit_gate_noise")
        c2 == NoiseAfter(m, c1, instr, TwoQubitGates, "two_qubit_gate_noise")
    IN  NoiseAfter(m, c2, instr, ResetGates, "reset_noise")

\* ------------------------------------------------------ circuit layering
RECURSIVE TickEnds(_, _)
\* [idx + 1 for idx, instr in enumerate(circuit) if instr.name == TICK]
TickEnds(c, i) ==
    IF i > Len(c) THEN <<>>
    ELSE (IF c[i].name = "TICK" THEN <<i>> ELSE <<>>) \o TickEnds(c, i + 1)

\* a slice whose negative end is taken to be the end of the list
PySliceToEnd(l, ix, iy) ==
    SubSeq(l, ix + 1, IF iy < 0 THEN Len(l) ELSE iy)

\* list[ix:iy] of Python, a negative end counting from the end of the list
PySlice(l, ix, iy) ==
    SubSeq(l, ix + 1, IF iy < 0 THEN Len(l) + iy ELSE iy)

\* the "" get_circuit_layers puts after the instructions
Sentinel == Instr("", <<>>, <<>>)

\* get_circuit_layers
get_circuit_layers(c) ==
    LET layers == TickEnds(c, 1)
        starts == <<0>> \o layers
        ends   == layers \o <<0 - 1>>
    IN  [k \in 1..Len(starts) |-> PySlice(Append(c, Sentinel), starts[k], ends[k])]

\* ------------------------------------------------------- the idle-noise pass
RECURSIVE SetOrder(_)
\* the order in which a Python set of small non-negative ints is iterated
SetOrder(S) ==
    IF S = {} THEN <<>>
    ELSE LET lo == CHOOSE x \in S : \A y \in S : x <= y
         IN  <<lo>> \o SetOrder(S \ {lo})

\* the first target of every instruction that has targets
qubit_indices_any_instruction(c) ==
    {c[i].targets[1] : i \in {j \in 1..Len(c) : c[j].targets # <<>>}}

\* the first target of every QUBIT_COORDS instruction
qubit_indices(c) ==
    {c[i].targets[1] : i \in {j \in 1..Len(c) : c[j].name = "QUBIT_COORDS"}}

\* the filter `if instr.name` of active_qubits: true of every non-empty name
NameFilter(instr) == instr.name # ""

active_qubits(timeslice) ==
    UNION {{timeslice[i].targets[j] : j \in 1..Len(timeslice[i].targets)} :
              i \in {k \in 1..Len(timeslice) : NameFilter(timeslice[k])}}

idle_qubits(c, timeslice) == qubit_indices(c) \ active_qubits(timeslice)

IdleInstr(m, idle) ==
    Instr(StimName(m.idle_noise.channel), SetOrder(idle), m.idle_noise.param.val)

\* the timeslice with the idle noise appended after its last instruction
NewTimesliceNoiseLast(m, c, timeslice) ==
    IF Len(timeslice) = 0 THEN <<>>
    ELSE IF idle_qubits(c, timeslice) # {} /\ Truthy(m.idle_noise.param)
    THEN Append(timeslice, IdleInstr(m, idle_qubits(c, timeslice)))
    ELSE timeslice

\* the timeslice with the idle noise on both sides of its last instruction
NewTimesliceNoiseTwice(m, c, timeslice) ==
    IF Len(timeslice) = 0 THEN <<>>
    ELSE IF idle_qubits(c, timeslice) # {} /\ Truthy(m.idle_noise.param)
    THEN Append(Append(Append(PySlice(timeslice, 0, 0 - 1),
                              IdleInstr(m, idle_qubits(c, timeslice))),
                       timeslice[Len(timeslice)]),
                IdleInstr(m, idle_qubits(c, timeslice)))
    ELSE timeslice

\* the timeslice whose last instruction is not put back after the idle noise
NewTimesliceDropsLast(m, c, timeslice) ==
    IF Len(timeslice) = 0 THEN <<>>
    ELSE IF idle_qubits(c, timeslice) # {} /\ Truthy(m.idle_noise.param)
    THEN Append(PySlice(timeslice, 0, 0 - 1), IdleInstr(m, idle_qubits(c, timeslice)))
    ELSE timeslice

\* the body of the loop over the timeslices: the timeslice added to final_circuit
NewTimeslice(m, c, timeslice) ==
    IF Len(timeslice) = 0 THEN <<>>
    ELSE IF idle_qubits(c, timeslice) # {} /\ Truthy(m.idle_noise.param)
    THEN LET new_timeslice == PySlice(timeslice, 0, 0 - 1)
             tick == timeslice[Len(timeslice)]
         IN  Append(Append(new_timeslice, IdleInstr(m, idle_qubits(c, timeslice))),
                    tick)
    ELSE timeslice

RECURSIVE Concat(_, _)
Concat(ls, k) == IF k > Len(ls) THEN <<>> ELSE ls[k] \o Concat(ls, k + 1)

\* add_idle_noise, when it does not raise
add_idle_noise(m, c) ==
    LET circuit_layers == get_circuit_layers(c)
    IN  Concat([k \in 1..Len(circuit_layers) |->
                   NewTimeslice(m, c, circuit_layers[k])], 1)

\* ----------------------------------------------------------- input circuits
Alphabet ==
    {Instr("QUBIT_COORDS", <<0>>, <<>>),
     Instr("QUBIT_COORDS", <<1, 0>>, <<>>),
     Instr("TICK", <<>>, <<>>),
     Instr("DETECTOR", <<0 - 1>>, <<>>),
     Instr("OBSERVABLE_INCLUDE", <<0 - 1>>, <<0>>),
     Instr("H", <<1>>, <<>>),
     Instr("CX", <<0, 1>>, <<>>),
     Instr("R", <<0>>, <<>>),
     Instr("M", <<1>>, <<>>),
     Instr("MX", <<0>>, <<5>>),
     Instr("MR", <<0, 1>>, <<>>),
     Instr("SWAP", <<0, 1>>, <<>>)}

Circuits == UNION {[1..n -> Alphabet] : n \in 0..MaxLen}

\* the arguments the models of the permutation runs are constructed with
PermuteArgs ==
    {Kwargs(None, None, None, None, 0),
     Kwargs(Pair("DEPOLARIZE2", Scalar(10)), Pair("DEPOLARIZE1", Scalar(10)),
            Pair("Y_ERROR", Scalar(1)), Pair("Z_ERROR", Scalar(2)), 10),
     Kwargs(Pair("DEPOLARIZE2", Scalar(10)), Pair("DEPOLARIZE1", Scalar(10)),
            Pair("Y_ERROR", Scalar(1)), None, 10),
     Kwargs(None, Pair("PAULI_CHANNEL_1", Tup(3, 0)), None,
            Pair("Z_ERROR", Scalar(2)), 0),
     Kwargs(Pair("PAULI_CHANNEL_2", Tup(15, 1)), None, None, None, 10)}

\* a constructed model and a call: permute_circuit(circuit) or
\* add_idle_noise(circuit)
Init ==
    /\ args \in {a \in PermuteArgs : is_legal_noise_model(a) = ""}
    /\ model = NewNoiseModel(args)
    /\ error = ""
    /\ circuit \in Circuits
    /\ pc \in {"permute_circuit", "add_idle_noise"}
    /\ noisy_circuit = <<>>
    /\ idx = 0
    /\ result = <<>>
    /\ NoExtraction
    /\ NoLater

\* the instruction the for loop of permute_circuit is at
Current == circuit[idx + 1]

InLoop == pc = "permute_circuit" /\ idx < Len(circuit)

\* for instr in circuit: instr.name in MeasureAndReset.members()
MeasureAndResetStep ==
    /\ InLoop
    /\ Current.name \in MeasureAndReset
    /\ noisy_circuit' = measurement_and_reset_instruction(model, noisy_circuit, Current)
    /\ idx' = idx + 1
    /\ UNCHANGED <<args, model, error, circuit, pc, result, extractor, later>>

\* the measurement step writing the noise argument into the input's instruction
MeasurementStepInPlace ==
    /\ InLoop
    /\ Current.name \notin MeasureAndReset
    /\ Current.name \in MeasurementGates
    /\ circuit' = [circuit EXCEPT ![idx + 1].args = MeasurementArg(model)]
    /\ noisy_circuit' = measurement_instruction(model, noisy_circuit, Current)
    /\ idx' = idx + 1
    /\ UNCHANGED <<args, model, error, pc, result, extractor, later>>

\* instr.name in MeasurementGates.members()
MeasurementStep ==
    /\ InLoop
    /\ Current.name \notin MeasureAndReset
    /\ Current.name \in MeasurementGates
    /\ noisy_circuit' = measurement_instruction(model, noisy_circuit, Current)
    /\ idx' = idx + 1
    /\ UNCHANGED <<args, model, error, circuit, pc, result, extractor, later>>

\* noisy_circuit.append(instr); instr.name in StimDecorators.members(): continue
DecoratorStep ==
    /\ InLoop
    /\ Current.name \notin MeasureAndReset \cup MeasurementGates
    /\ Current.name \in StimDecorators
    /\ noisy_circuit' = Append(noisy_circuit, Current)
    /\ idx' = idx + 1
    /\ UNCHANGED <<args, model, error, circuit, pc, result, extractor, later>>

\* noisy_circuit.append(instr); self._gate_instruction(noisy_circuit, instr)
GateStep ==
    /\ InLoop
    /\ Current.name \notin MeasureAndReset \cup MeasurementGates \cup StimDecorators
    /\ noisy_circuit' = gate_instruction(model, Append(noisy_circuit, Current), Current)
    /\ idx' = idx + 1
    /\ UNCHANGED <<args, model, error, circuit, pc, result, extractor, later>>

AfterLoop == pc = "permute_circuit" /\ idx = Len(circuit)

\* return noisy_circuit
ReturnNoisy ==
    /\ AfterLoop
    /\ ~Truthy(model.idle_noise.param)
    /\ result' = noisy_circuit
    /\ pc' = "returned"
    /\ UNCHANGED <<args, model, error, circuit, noisy_circuit, idx, extractor, later>>

\* return self.add_idle_noise(noisy_circuit)
ReturnIdle ==
    /\ AfterLoop
    /\ Truthy(model.idle_noise.param)
    /\ qubit_indices(noisy_circuit) # {}
    /\ result' = add_idle_noise(model, noisy_circuit)
    /\ pc' = "returned"
    /\ UNCHANGED <<args, model, error, circuit, noisy_circuit, idx, extractor, later>>

\* add_idle_noise raises: no QUBIT_COORDS in the circuit
RaiseNoQubits ==
    /\ AfterLoop
    /\ Truthy(model.idle_noise.param)
    /\ qubit_indices(noisy_circuit) = {}
    /\ error' = "You must define qubit entries"
    /\ pc' = "ValueError"
    /\ UNCHANGED <<args, model, circuit, noisy_circuit, idx, result, extractor, later>>

\* add_idle_noise(circuit) called on its own
AddIdleNoise ==
    /\ pc = "add_idle_noise"
    /\ qubit_indices(circuit) # {}
    /\ result' = add_idle_noise(model, circuit)
    /\ pc' = "idle_returned"
    /\ UNCHANGED <<args, model, error, circuit, noisy_circuit, idx, extractor, later>>

AddIdleNoiseRaises ==
    /\ pc = "add_idle_noise"
    /\ qubit_indices(circuit) = {}
    /\ error' = "You must define qubit entries"
    /\ pc' = "ValueError"
    /\ UNCHANGED <<args, model, circuit, noisy_circuit, idx, result, extractor, later>>

Next ==
    \/ MeasureAndResetStep
    \/ MeasurementStep
    \/ DecoratorStep
    \/ GateStep
    \/ ReturnNoisy
    \/ ReturnIdle
    \/ RaiseNoQubits
    \/ AddIdleNoise
    \/ AddIdleNoiseRaises

Spec == Init /\ [][Next]_vars

\* ------------------------------------------------ error-model extraction
\* the most events of an error model drawn from DemAlphabet
MaxEvents == 3

\* a target of an event: a relative detector id D<val>, a logical observable
\* id L<val>, or a plain number
DetectorId(n) == [kind |-> "D", val |-> n]

ObservableId(n) == [kind |-> "L", val |-> n]

Number(n) == [kind |-> "N", val |-> n]

\* an event of a stim.DetectorErrorModel
Event(type, targets, evargs) ==
    [type |-> type, targets |-> targets, args |-> evargs]

\* the symptoms an error event of DemAlphabet can have
Symptoms ==
    {<<DetectorId(0)>>,
     <<DetectorId(1)>>,
     <<DetectorId(0), DetectorId(1)>>,
     <<DetectorId(0), ObservableId(0)>>,
     <<DetectorId(1), ObservableId(0)>>,
     <<ObservableId(0)>>}

DemAlphabet ==
    {Event("error", t, <<p>>) : t \in Symptoms, p \in {10, 20}}
        \cup {Event("detector", <<DetectorId(1)>>, <<>>),
              Event("logical_observable", <<ObservableId(0)>>, <<>>),
              Event("shift_detectors", <<Number(0)>>, <<>>)}

\* the error model of the toy circuit: five mechanisms, two detectors, one
\* observable
ToyDem ==
    <<Event("error", <<DetectorId(0)>>, <<9>>),
      Event("error", <<DetectorId(0), DetectorId(1)>>, <<22>>),
      Event("error", <<DetectorId(0), ObservableId(0)>>, <<20>>),
      Event("error", <<DetectorId(1)>>, <<39>>),
      Event("error", <<DetectorId(1), ObservableId(0)>>, <<29>>)>>

Dems == UNION {[1..n -> DemAlphabet] : n \in 0..MaxEvents} \cup {ToyDem}

\* the values of the targets of one kind of an event
TargetVals(event, kind) ==
    {event.targets[j].val :
        j \in {k \in 1..Len(event.targets) : event.targets[k].kind = kind}}

\* one more than the largest id of the kind in the error model, 0 without any
CountIds(d, kind) ==
    LET ids == UNION {TargetVals(d[i], kind) : i \in 1..Len(d)}
    IN  IF ids = {} THEN 0
        ELSE 1 + CHOOSE n \in ids : \A k \in ids : k <= n

\* dem.num_detectors
num_detectors(d) == CountIds(d, "D")

\* dem.num_observables
num_observables(d) == CountIds(d, "L")

\* the count of every event of the error model
num_errors_counts_all_events(d) == Len(d)

\* dem.num_errors
num_errors(d) == Cardinality({i \in 1..Len(d) : d[i].type = "error"})

\* np.zeros((rows, cols)), as the list of its rows
Zeros(rows, cols) == [i \in 1..rows |-> [j \in 1..cols |-> 0]]

\* every target value of the event
detectors_trigged_without_filter(event) ==
    {event.targets[j].val : j \in 1..Len(event.targets)}

\* x.val for the targets with is_relative_detector_id()
detectors_trigged(event) == TargetVals(event, "D")

\* x.val for the targets with is_logical_observable_id()
logicals_triggered(event) == TargetVals(event, "L")

\* matrix[row, col] = 1 for every row of rows, indices counted from 0
SetEntries(matrix, rows, col) ==
    [i \in 1..Len(matrix) |->
        IF (i - 1) \in rows THEN [matrix[i] EXCEPT ![col + 1] = 1]
        ELSE matrix[i]]

\* an assignment matrix[row, idx] = 1 of this event is out of the matrix
OutOfBounds(event, d, col) ==
    \/ detectors_trigged(event) # {} /\
          (col >= num_errors(d) \/ \E r \in detectors_trigged(event) : r >= num_detectors(d))
    \/ logicals_triggered(event) # {} /\
          (col >= num_errors(d) \/ \E r \in logicals_triggered(event) : r >= num_observables(d))

\* CircuitUnderstander._understand_circuit is entered with the error model
InitDem ==
    /\ dem \in Dems
    /\ pc = "_understand_circuit"
    /\ parity_check = <<>>
    /\ logical_check = <<>>
    /\ error_probabilities = <<>>
    /\ idx = 0
    /\ args = Kwargs(None, None, None, None, 0)
    /\ model = NoModel
    /\ error = ""
    /\ circuit = <<>>
    /\ noisy_circuit = <<>>
    /\ result = <<>>
    /\ NoLater

\* parity_check, logical_check = np.zeros(...); error_probabilities = []
AllocateMatrices ==
    /\ pc = "_understand_circuit"
    /\ parity_check' = Zeros(num_detectors(dem), num_errors(dem))
    /\ logical_check' = Zeros(num_observables(dem), num_errors(dem))
    /\ error_probabilities' = <<>>
    /\ pc' = "for event"
    /\ UNCHANGED <<args, model, error, circuit, noisy_circuit, idx, result, dem, later>>

\* the event enumerate(dem) is at: its index is idx
CurrentEvent == dem[idx + 1]

InEventLoop == pc = "for event" /\ idx < Len(dem)

\* if event.type != "error": continue
SkipEvent ==
    /\ InEventLoop
    /\ CurrentEvent.type # "error"
    /\ idx' = idx + 1
    /\ UNCHANGED <<args, model, error, circuit, noisy_circuit, pc, result, extractor, later>>

\* an error event: the entries of column idx are set, the probability appended
RecordError ==
    /\ InEventLoop
    /\ CurrentEvent.type = "error"
    /\ ~OutOfBounds(CurrentEvent, dem, idx)
    /\ parity_check' = SetEntries(parity_check, detectors_trigged(CurrentEvent), idx)
    /\ logical_check' = SetEntries(logical_check, logicals_triggered(CurrentEvent), idx)
    /\ error_probabilities' = Append(error_probabilities, CurrentEvent.args[1])
    /\ idx' = idx + 1
    /\ UNCHANGED <<args, model, error, circuit, noisy_circuit, pc, result, dem, later>>

\* an error event whose column idx is past the last column: numpy raises
RecordErrorRaises ==
    /\ InEventLoop
    /\ CurrentEvent.type = "error"
    /\ OutOfBounds(CurrentEvent, dem, idx)
    /\ error' = "index is out of bounds"
    /\ pc' = "IndexError"
    /\ UNCHANGED <<args, model, circuit, noisy_circuit, idx, result, extractor, later>>

\* self.parity_check = list(parity_check), ... after the loop
FinishExtraction ==
    /\ pc = "for event"
    /\ idx = Len(dem)
    /\ pc' = "extracted"
    /\ UNCHANGED <<args, model, error, circuit, noisy_circuit, idx, result, extractor, later>>

NextDem ==
    \/ AllocateMatrices
    \/ SkipEvent
    \/ RecordError
    \/ RecordErrorRaises
    \/ FinishExtraction

SpecDem == InitDem /\ [][NextDem]_vars

\* ------------------------------------------------ the noisy-circuit check
\* the check taking a measurement with any argument, a zero included, as noise
check_if_noisy_circuit_any_argument(c) ==
    \/ \E i \in 1..Len(c) :
          c[i].name \in OneQubitNoiseChannels \cup TwoQubitNoiseChannels
    \/ \E i \in 1..Len(c) :
          /\ c[i].name \in MeasurementGates
          /\ \E k \in 1..Len(c[i].args) : c[i].args[k] >= 0

\* check_if_noisy_circuit
check_if_noisy_circuit(c) ==
    \/ \E i \in 1..Len(c) :
          c[i].name \in OneQubitNoiseChannels \cup TwoQubitNoiseChannels
    \/ \E i \in 1..Len(c) :
          /\ c[i].name \in MeasurementGates
          /\ \E k \in 1..Len(c[i].args) : c[i].args[k] > 0

\* instructions of noiseless circuits and of the circuits permute_circuit returns
NoiseAlphabet ==
    {Instr("H", <<0>>, <<>>),
     Instr("CX", <<0, 1>>, <<>>),
     Instr("TICK", <<>>, <<>>),
     Instr("DETECTOR", <<0 - 1>>, <<>>),
     Instr("M", <<0>>, <<>>),
     Instr("M", <<0>>, <<0>>),
     Instr("MX", <<0>>, <<10>>),
     Instr("MR", <<0>>, <<10>>),
     Instr("X_ERROR", <<0>>, <<0>>),
     Instr("DEPOLARIZE1", <<0>>, <<10>>),
     Instr("DEPOLARIZE2", <<0, 1>>, <<10>>)}

NoiseCircuits == UNION {[1..n -> NoiseAlphabet] : n \in 0..MaxLen}

\* Sampler(circuit)(...) is called, or a Decoder is constructed on circuit
InitNoise ==
    /\ circuit \in NoiseCircuits
    /\ pc \in {"Sampler.__call__", "Decoder.__init__"}
    /\ args = Kwargs(None, None, None, None, 0)
    /\ model = NoModel
    /\ error = ""
    /\ noisy_circuit = <<>>
    /\ idx = 0
    /\ result = <<>>
    /\ NoExtraction
    /\ NoLater

\* Sampler.__call__: raise NoNoiseInCircuitError()
SamplerRaises ==
    /\ pc = "Sampler.__call__"
    /\ ~check_if_noisy_circuit(circuit)
    /\ error' = "Circuit passed has no noise; decoding will have no effect."
    /\ pc' = "NoNoiseInCircuitError"
    /\ UNCHANGED <<args, model, circuit, noisy_circuit, idx, result, extractor, later>>

\* Sampler.__call__: detector_sampler = self.circuit.compile_detector_sampler()
SamplerCompiles ==
    /\ pc = "Sampler.__call__"
    /\ check_if_noisy_circuit(circuit)
    /\ pc' = "compile_detector_sampler"
    /\ UNCHANGED <<args, model, error, circuit, noisy_circuit, idx, result, extractor, later>>

\* Decoder.__init__: raise NoNoiseInCircuitError()
DecoderRaises ==
    /\ pc = "Decoder.__init__"
    /\ ~check_if_noisy_circuit(circuit)
    /\ error' = "Circuit passed has no noise; decoding will have no effect."
    /\ pc' = "NoNoiseInCircuitError"
    /\ UNCHANGED <<args, model, circuit, noisy_circuit, idx, result, extractor, later>>

\* Decoder.__init__ returns to the constructor of the subclass
DecoderInitReturns ==
    /\ pc = "Decoder.__init__"
    /\ check_if_noisy_circuit(circuit)
    /\ pc' = "Decoder.__init__ returned"
    /\ UNCHANGED <<args, model, error, circuit, noisy_circuit, idx, result, extractor, later>>

NextNoise ==
    \/ SamplerRaises
    \/ SamplerCompiles
    \/ DecoderRaises
    \/ DecoderInitReturns

SpecNoise == InitNoise /\ [][NextNoise]_vars

\* ------------------------------------------------------ syndrome sampling
\* the largest num_shots of a call
MaxShots == 2

\* a shot of the detector sampler: the detector bits and the observable bit
Shot(syn, ob) == [syn |-> syn, ob |-> ob]

\* the shots of a circuit with two detectors and one observable
Shots ==
    {Shot(<<FALSE, FALSE>>, FALSE),
     Shot(<<FALSE, FALSE>>, TRUE),
     Shot(<<FALSE, TRUE>>, FALSE),
     Shot(<<TRUE, TRUE>>, TRUE)}

\* detector_sampler.sample(shots=n, separate_observables=True), zipped
Batches(n) == [1..n -> Shots]

\* any(_syn)
AnySyn(shot) == \E i \in 1..Len(shot.syn) : shot.syn[i]

\* int(bit) for bit in syndrome
IntBits(syn) == [i \in 1..Len(syn) |-> IF syn[i] THEN 1 ELSE 0]

\* the whole list, without the cut at num_shots
PyPrefixWhole(l, n) == l

\* l[0:n]
PyPrefix(l, n) == SubSeq(l, 1, IF n < Len(l) THEN n ELSE Len(l))

\* a noiseless circuit, one that passes the noise check with a zero
\* probability, and a noisy one
SamplerCircuits ==
    {<<Instr("H", <<0>>, <<>>), Instr("M", <<0>>, <<>>),
       Instr("DETECTOR", <<0 - 1>>, <<>>)>>,
     <<Instr("X_ERROR", <<0>>, <<0>>), Instr("M", <<0>>, <<>>),
       Instr("DETECTOR", <<0 - 1>>, <<>>)>>,
     <<Instr("DEPOLARIZE1", <<0>>, <<10>>), Instr("M", <<0>>, <<10>>),
       Instr("DETECTOR", <<0 - 1>>, <<>>)>>}

\* Sampler(circuit)(num_shots, exclude_empty) is called
InitSampler ==
    /\ circuit \in SamplerCircuits
    /\ num_shots \in 0..MaxShots
    /\ exclude_empty \in BOOLEAN
    /\ pc = "Sampler.__call__"
    /\ batch = <<>>
    /\ syndrome_batch = <<>>
    /\ observable_batch = <<>>
    /\ args = Kwargs(None, None, None, None, 0)
    /\ model = NoModel
    /\ error = ""
    /\ noisy_circuit = <<>>
    /\ idx = 0
    /\ result = <<>>
    /\ NoExtraction
    /\ NoManaging
    /\ NoDecoding

\* else: syndrome_batch, observable_batch = detector_sampler.sample(...)
SampleOnce ==
    /\ pc = "compile_detector_sampler"
    /\ ~exclude_empty
    /\ \E b \in Batches(num_shots) :
          /\ batch' = b
          /\ syndrome_batch' = [i \in 1..Len(b) |-> b[i].syn]
          /\ observable_batch' = [i \in 1..Len(b) |-> b[i].ob]
    /\ pc' = "return"
    /\ UNCHANGED <<args, model, error, circuit, noisy_circuit, idx, result,
                   extractor, num_shots, exclude_empty, managing, decoding>>

\* if exclude_empty: syndrome_batch = []; observable_batch = []
EnterLoop ==
    /\ pc = "compile_detector_sampler"
    /\ exclude_empty
    /\ syndrome_batch' = <<>>
    /\ observable_batch' = <<>>
    /\ pc' = "while"
    /\ UNCHANGED <<args, model, error, circuit, noisy_circuit, idx, result,
                   extractor, num_shots, exclude_empty, batch, managing, decoding>>

\* the shots of the batch with a triggered detector, in the order of the batch
KeptShots(b) == SelectSeq(b, AnySyn)

\* the body of the while loop run with the batch b
Draw(b) ==
    /\ pc = "while"
    /\ Len(syndrome_batch) < num_shots
    /\ batch' = b
    /\ syndrome_batch' =
          syndrome_batch \o [i \in 1..Len(KeptShots(b)) |-> KeptShots(b)[i].syn]
    /\ observable_batch' =
          observable_batch \o [i \in 1..Len(KeptShots(b)) |-> KeptShots(b)[i].ob]
    /\ UNCHANGED <<args, model, error, circuit, noisy_circuit, idx, result, pc,
                   extractor, num_shots, exclude_empty, managing, decoding>>

\* while len(syndrome_batch) < num_shots: sample a batch, keep its non-empty shots
DrawBatch == \E b \in Batches(num_shots) : Draw(b)

\* the loop draws a batch with a shot whose syndrome is not empty
DrawNonEmpty == \E b \in Batches(num_shots) : KeptShots(b) # <<>> /\ Draw(b)

\* the while condition is false
ExitLoop ==
    /\ pc = "while"
    /\ ~(Len(syndrome_batch) < num_shots)
    /\ pc' = "return"
    /\ UNCHANGED <<args, model, error, circuit, noisy_circuit, idx, result,
                   extractor, sampling, managing, decoding>>

\* return (np.asarray(...)[0 : int(num_shots)], observable_batch[0 : int(num_shots)])
ReturnSamples ==
    /\ pc = "return"
    /\ result' = <<PyPrefix([i \in 1..Len(syndrome_batch) |->
                               IntBits(syndrome_batch[i])], num_shots),
                   PyPrefix(observable_batch, num_shots)>>
    /\ pc' = "sampler_returned"
    /\ UNCHANGED <<args, model, error, circuit, noisy_circuit, idx,
                   extractor, sampling, managing, decoding>>

NextSampler ==
    \/ SamplerRaises
    \/ SamplerCompiles
    \/ SampleOnce
    \/ EnterLoop
    \/ DrawBatch
    \/ ExitLoop
    \/ ReturnSamples

SpecSampler == InitSampler /\ [][NextSampler]_vars

\* the call proceeds, and the loop draws batches whatever they hold
SamplerFairnessAnyBatch == WF_vars(NextSampler)

\* the call proceeds, and the detector sampler keeps producing shots with a
\* non-empty syndrome
SamplerFairness == WF_vars(NextSampler) /\ WF_vars(DrawNonEmpty)

SpecSamplerFair == SpecSampler /\ SamplerFairness

\* ---------------------------------------------------------- decoder manager
\* the largest number of cores of a DecoderManager
MaxCores == 3

\* logical error rates a worker can return, in thousandths
LogicalErrors == {0, 500, One}

\* one task of pool.map: its argument, its progress and its return value
Task(shots) == [shots |-> shots, state |-> "pending", value |-> 0]

\* [shots_per_core] * self.cores
Tasks(shots_per_core, n) == [i \in 1..n |-> Task(shots_per_core)]

RECURSIVE SumTo(_, _)
\* the sum of the first k entries of a list of numbers
SumTo(l, k) == IF k = 0 THEN 0 ELSE SumTo(l, k - 1) + l[k]

\* the list pool.map returns: the return values in the order of the tasks
Results(w) == [i \in 1..Len(w) |-> w[i].value]

\* np.mean(results), as the fraction <<numerator, denominator>>
np_mean(results) == <<SumTo(results, Len(results)), Len(results)>>

\* np.std(results) squared, as the fraction <<numerator, denominator>>
np_var(results) ==
    LET n  == Len(results)
        sq == [i \in 1..n |-> results[i] * results[i]]
        s  == SumTo(results, n)
    IN  <<n * SumTo(sq, n) - s * s, n * n>>

\* every task has returned or raised
AllFinished(w) == \A i \in 1..Len(w) : w[i].state # "pending"

\* pool.map has a result for every task, failures counted as results
SucceededIgnoringFailures(w) == AllFinished(w)

\* pool.map has a return value for every task
Succeeded(w) == \A i \in 1..Len(w) : w[i].state = "done"

\* DecoderManager(decoder, cores).run(circuit, num_shots) is called
InitManager ==
    /\ circuit \in SamplerCircuits
    /\ cores \in 1..MaxCores
    /\ num_shots \in 0..MaxShots
    /\ workers = <<>>
    /\ pc = "DecoderManager.run"
    /\ exclude_empty = FALSE
    /\ batch = <<>>
    /\ syndrome_batch = <<>>
    /\ observable_batch = <<>>
    /\ args = Kwargs(None, None, None, None, 0)
    /\ model = NoModel
    /\ error = ""
    /\ noisy_circuit = <<>>
    /\ idx = 0
    /\ result = <<>>
    /\ NoExtraction
    /\ NoDecoding

\* shots_per_core = num_shots // self.cores; pool.map(..., [shots_per_core] * self.cores)
SubmitMap ==
    /\ pc = "DecoderManager.run"
    /\ workers' = Tasks(num_shots \div cores, cores)
    /\ pc' = "pool.map"
    /\ UNCHANGED <<args, model, error, circuit, noisy_circuit, idx, result,
                   extractor, sampling, cores, decoding>>

\* _logical_error returns in the worker process of task i
WorkerReturns(i) ==
    /\ pc = "pool.map"
    /\ workers[i].state = "pending"
    /\ \E v \in LogicalErrors :
          workers' = [workers EXCEPT ![i].state = "done", ![i].value = v]
    /\ UNCHANGED <<args, model, error, circuit, noisy_circuit, idx, pc, result,
                   extractor, sampling, cores, decoding>>

\* _logical_error raises in the worker process of task i
WorkerRaises(i) ==
    /\ pc = "pool.map"
    /\ workers[i].state = "pending"
    /\ workers' = [workers EXCEPT ![i].state = "failed"]
    /\ UNCHANGED <<args, model, error, circuit, noisy_circuit, idx, pc, result,
                   extractor, sampling, cores, decoding>>

\* the tasks finish in any order
WorkerStep == \E i \in 1..Len(workers) : WorkerReturns(i) \/ WorkerRaises(i)

\* pool.map re-raises the exception of a task once every task has finished
MapRaises ==
    /\ pc = "pool.map"
    /\ AllFinished(workers)
    /\ ~Succeeded(workers)
    /\ error' = "worker exception"
    /\ pc' = "manager_raised"
    /\ UNCHANGED <<args, model, circuit, noisy_circuit, idx, result,
                   extractor, later>>

\* return float(np.mean(results)), float(np.std(results))
MapReturns ==
    /\ pc = "pool.map"
    /\ Succeeded(workers)
    /\ result' = <<np_mean(Results(workers)), np_var(Results(workers))>>
    /\ pc' = "manager_returned"
    /\ UNCHANGED <<args, model, error, circuit, noisy_circuit, idx,
                   extractor, later>>

NextManager ==
    \/ SubmitMap
    \/ WorkerStep
    \/ MapRaises
    \/ MapReturns

SpecManager == InitManager /\ [][NextManager]_vars

\* ------------------------------------------------- belief propagation update
\* the largest number of detectors of a parity-check matrix
MaxDetectors == 2

\* the largest number of error mechanisms of a parity-check matrix
MaxErrors == 2

\* 0 and 1
Bits == {0, 1}

\* the binary r x c matrices, as lists of rows
BinaryMatrices(r, c) == [1..r -> [1..c -> Bits]]

\* the shorter of two lengths, where zip stops
Shorter(a, b) == IF a < b THEN a ELSE b

\* sum(x * y for x, y in zip(parity_row, error_pattern)) + syndrome[idx], no % 2
RowSyndromePlain(parity_row, e, s) ==
    LET n == Shorter(Len(parity_row), Len(e))
    IN  SumTo([j \in 1..n |-> parity_row[j] * e[j]], n) + s

\* (sum(x * y for x, y in zip(parity_row, error_pattern)) + syndrome[idx]) % 2
RowSyndrome(parity_row, e, s) ==
    LET n == Shorter(Len(parity_row), Len(e))
    IN  (SumTo([j \in 1..n |-> parity_row[j] * e[j]], n) + s) % 2

\* update_syndrome_from_error_pattern(syndrome, error_pattern)
update_syndrome_from_error_pattern(H, s, e) ==
    [i \in 1..Len(H) |-> RowSyndrome(H[i], e, s[i])]

\* a decoder with a parity-check matrix is handed a syndrome and an error
\* pattern
InitUpdate ==
    /\ \E r \in 1..MaxDetectors, c \in 1..MaxErrors :
          /\ parity_check \in BinaryMatrices(r, c)
          /\ syndrome \in [1..r -> Bits]
    /\ \E n \in 1..MaxErrors : error_pattern \in [1..n -> Bits]
    /\ pc = "update_syndrome_from_error_pattern"
    /\ dem = <<>>
    /\ logical_check = <<>>
    /\ error_probabilities = <<>>
    /\ circuit = <<>>
    /\ args = Kwargs(None, None, None, None, 0)
    /\ model = NoModel
    /\ error = ""
    /\ noisy_circuit = <<>>
    /\ idx = 0
    /\ result = <<>>
    /\ NoSampling
    /\ NoManaging
    /\ decoder_options = "None"
    /\ decoder = "None"

\* return np.asarray([... for idx, parity_row in enumerate(self.parity_check)])
UpdateSyndrome ==
    /\ pc = "update_syndrome_from_error_pattern"
    /\ result' = update_syndrome_from_error_pattern(parity_check, syndrome, error_pattern)
    /\ pc' = "syndrome_updated"
    /\ UNCHANGED <<args, model, error, circuit, noisy_circuit, idx,
                   extractor, later>>

SpecUpdate == InitUpdate /\ [][UpdateSyndrome]_vars

\* ------------------------------------------------ belief propagation decoders
\* an optional number: a value, or None
Given(v) == [given |-> TRUE, val |-> v]

NotGiven == [given |-> FALSE, val |-> 0]

\* Python truth value of an optional number: None and 0 are false
TruthyOpt(o) == o.given /\ o.val # 0

\* MessageUpdates
PROD_SUM == 0

MIN_SUM == 1

\* OSDMethods
ZERO == 0

EXHAUSTIVE == 1

COMBINATION_SWEEP == 2

\* the fields of LDPCDecoderOptions as they are passed
Options(mi, mu, sf, om, oo) ==
    [max_iterations |-> mi, message_updates |-> mu, min_sum_scaling_factor |-> sf,
     osd_method |-> om, osd_order |-> oo]

\* the options passed to LDPCDecoderOptions(...): valid iteration counts,
\* message updates and OSD methods, any OSD order
RawOptions ==
    {Options(mi, mu, sf, om, oo) :
        mi \in {1, 30},
        mu \in {NotGiven, Given(PROD_SUM), Given(MIN_SUM)},
        sf \in {NotGiven, Given(15)},
        om \in {NotGiven, Given(ZERO), Given(EXHAUSTIVE), Given(COMBINATION_SWEEP)},
        oo \in {NotGiven, Given(0), Given(11)}}

\* LDPCDecoderOptions.__post_init__: the ValueError it raises, "" if none
PostInitError(o) ==
    IF TruthyOpt(o.osd_order) /\ ~o.osd_method.given
    THEN "OSD Method configuration must be given."
    ELSE ""

\* self.message_updates or MessageUpdates.PROD_SUM
MessageUpdatesOf(o) ==
    IF TruthyOpt(o.message_updates) THEN o.message_updates ELSE Given(PROD_SUM)

\* LDPCDecoderOptions.__post_init__: the fields it leaves
PostInit(o) ==
    [max_iterations |-> o.max_iterations,
     message_updates |-> MessageUpdatesOf(o),
     min_sum_scaling_factor |->
        IF MessageUpdatesOf(o) = Given(MIN_SUM)
        THEN IF TruthyOpt(o.min_sum_scaling_factor)
             THEN o.min_sum_scaling_factor ELSE Given(1)
        ELSE o.min_sum_scaling_factor,
     osd_method |-> o.osd_method,
     osd_order |->
        IF o.osd_method = Given(ZERO) THEN Given(0)
        ELSE IF o.osd_method = Given(EXHAUSTIVE)
             THEN IF TruthyOpt(o.osd_order) THEN o.osd_order ELSE Given(10)
        ELSE IF o.osd_method = Given(COMBINATION_SWEEP) THEN Given(0 - 1)
        ELSE o.osd_order]

\* the LDPCDecoderOptions objects that can be constructed
DecoderOptions == {PostInit(o) : o \in {r \in RawOptions : PostInitError(r) = ""}}

\* the ms_scaling_factor of an ldpc decoder that is not handed one
DefaultScaling == Given(1)

\* an object of the ldpc package
LdpcDecoder(kind, o, sf, om, oo) ==
    [kind |-> kind, max_iter |-> o.max_iterations, bp_method |-> o.message_updates,
     ms_scaling_factor |-> sf, osd_method |-> om, osd_order |-> oo]

\* the scaling factor the setter hands over
ScalingOf(o) ==
    IF o.message_updates = Given(PROD_SUM) THEN DefaultScaling
    ELSE o.min_sum_scaling_factor

\* the decoder setter: the object it stores in self._decoder
decoder_setter(o) ==
    IF TruthyOpt(o.osd_method)
    THEN LdpcDecoder("bposd_decoder", o, ScalingOf(o), o.osd_method, o.osd_order)
    ELSE LdpcDecoder("bp_decoder", o, ScalingOf(o), NotGiven, NotGiven)

\* no options and no decoder object yet
Unset == [kind |-> "unset"]

\* the classes built on LDPCBeliefPropagationDecoder
DecoderClasses == {"BeliefPropagation", "BPOSD"}

\* BeliefPropagation(circuit, decoder_options) or BPOSD(circuit, decoder_options)
\* is called
InitDecoder ==
    /\ circuit \in SamplerCircuits
    /\ \E cls \in DecoderClasses, o \in DecoderOptions :
          args = [cls |-> cls, decoder_options |-> o]
    /\ pc = "Decoder.__init__"
    /\ decoder_options = Unset
    /\ decoder = Unset
    /\ syndrome = <<>>
    /\ error_pattern = <<>>
    /\ model = NoModel
    /\ error = ""
    /\ noisy_circuit = <<>>
    /\ idx = 0
    /\ result = <<>>
    /\ NoExtraction
    /\ NoSampling
    /\ NoManaging

\* LDPCBeliefPropagationDecoder.__init__ after super().__init__:
\* self.decoder_options = decoder_options; self.decoder = self.decoder_options
BaseInit ==
    /\ pc = "Decoder.__init__ returned"
    /\ decoder_options' = args.decoder_options
    /\ decoder' = decoder_setter(args.decoder_options)
    /\ pc' = args.cls
    /\ UNCHANGED <<args, model, error, circuit, noisy_circuit, idx, result,
                   extractor, sampling, managing, syndrome, error_pattern>>

\* BeliefPropagation.__init__ after super().__init__: the OSD options are erased
\* from self.decoder_options
BeliefPropagationInit ==
    /\ pc = "BeliefPropagation"
    /\ decoder_options' =
          IF decoder_options.osd_method.given
          THEN PostInit(Options(args.decoder_options.max_iterations,
                                args.decoder_options.message_updates,
                                args.decoder_options.min_sum_scaling_factor,
                                NotGiven, NotGiven))
          ELSE decoder_options
    /\ pc' = "constructed"
    /\ UNCHANGED <<args, model, error, circuit, noisy_circuit, idx, result,
                   extractor, sampling, managing, decoder, syndrome, error_pattern>>

\* BPOSD.__init__ after super().__init__: if not decoder_options.osd_method: raise
BPOSDRaises ==
    /\ pc = "BPOSD"
    /\ ~TruthyOpt(args.decoder_options.osd_method)
    /\ error' = "You must provide an OSD method to use BPOSD."
    /\ pc' = "ValueError"
    /\ UNCHANGED <<args, model, circuit, noisy_circuit, idx, result,
                   extractor, later>>

\* BPOSD.__init__ returns
BPOSDReturns ==
    /\ pc = "BPOSD"
    /\ TruthyOpt(args.decoder_options.osd_method)
    /\ pc' = "constructed"
    /\ UNCHANGED <<args, model, error, circuit, noisy_circuit, idx, result,
                   extractor, later>>

NextDecoder ==
    \/ DecoderRaises
    \/ DecoderInitReturns
    \/ BaseInit
    \/ BeliefPropagationInit
    \/ BPOSDRaises
    \/ BPOSDReturns

SpecDecoder == InitDecoder /\ [][NextDecoder]_vars

\* ---------------------------------------------------------- DepolarizingNoise
\* the largest number of assignments to physical_error after construction
MaxAssignments == 3

\* values handed to DepolarizingNoise, in thousandths: -1, 0, 0.01, 0.02, 0.1,
\* 0.5, 0.99, 1 and 2
PhysicalErrors == {0 - One, 0, 10, 20, 100, 500, 990, One, 2 * One}

\* the physical_error setter: the attributes it assigns
physical_error_setter(new_value) ==
    [physical_error |-> new_value,
     single_qubit_gate_noise |-> new_value \div 10,
     reset_noise |-> new_value \div 10,
     two_qubit_gate_noise |-> new_value,
     measurement_noise |-> new_value]

\* 0 < self._physical_error < 1
InOpenUnitInterval(p) == 0 < p /\ p < One

\* DepolarizingNoise(physical_error) is called
InitDepolarizing ==
    /\ args \in PhysicalErrors
    /\ model = NoModel
    /\ pc = "DepolarizingNoise.__init__"
    /\ error = ""
    /\ circuit = <<>>
    /\ noisy_circuit = <<>>
    /\ idx = 0
    /\ result = <<>>
    /\ NoExtraction
    /\ NoLater

\* __init__ with a value outside (0, 1): the setter runs, then ValueError is
\* raised and the instance is dropped
DepolarizingRaises ==
    /\ pc = "DepolarizingNoise.__init__"
    /\ ~InOpenUnitInterval(args)
    /\ error' = "Physical error probability must be between 0 and 1."
    /\ pc' = "ValueError"
    /\ UNCHANGED <<args, model, circuit, noisy_circuit, idx, result,
                   extractor, later>>

\* __init__ with a value inside (0, 1)
DepolarizingConstructed ==
    /\ pc = "DepolarizingNoise.__init__"
    /\ InOpenUnitInterval(args)
    /\ model' = physical_error_setter(args)
    /\ pc' = "depolarizing_constructed"
    /\ UNCHANGED <<args, error, circuit, noisy_circuit, idx, result,
                   extractor, later>>

\* instance.physical_error = new_value
AssignPhysicalError ==
    /\ pc = "depolarizing_constructed"
    /\ idx < MaxAssignments
    /\ \E new_value \in PhysicalErrors : model' = physical_error_setter(new_value)
    /\ idx' = idx + 1
    /\ UNCHANGED <<args, error, circuit, noisy_circuit, pc, result,
                   extractor, later>>

NextDepolarizing ==
    \/ DepolarizingRaises
    \/ DepolarizingConstructed
    \/ AssignPhysicalError

SpecDepolarizing == InitDepolarizing /\ [][NextDepolarizing]_vars

\* ------------------------------------------------ claims on construction
Slots == {SlotNames[k] : k \in 1..Len(SlotNames)}

\* the tuple length a biased channel requires
WrongPauliLength(ch, param) ==
    \/ ch = "PAULI_CHANNEL_1" /\ (~param.tuple \/ Len(param.val) # 3)
    \/ ch = "PAULI_CHANNEL_2" /\ (~param.tuple \/ Len(param.val) # 15)

\* C6: a NoiseModel never holds PAULI_CHANNEL_1 with a parameter that is not a
\* tuple of length 3, nor PAULI_CHANNEL_2 with one that is not a tuple of
\* length 15: such arguments make the constructor raise.
C6_PauliLengthRejected ==
    pc = "constructed" =>
        \A s \in Slots : ~WrongPauliLength(model[s].channel, model[s].param)

ScalarOutOfRange(param) == ~param.tuple /\ (param.val[1] < 0 \/ param.val[1] >= One)

SomeScalarOutOfRange(a) ==
    \/ \E s \in Slots : a[s].given /\ ScalarOutOfRange(a[s].param)
    \/ a.measurement_noise < 0 \/ a.measurement_noise >= One

\* every provided slot pairs a channel of its own kind, not a biased one, with a
\* number in [0,1), and measurement_noise is in [0,1)
PlainScalarArgs(a) ==
    /\ \A s \in Slots : a[s].given =>
          /\ ~a[s].param.tuple
          /\ ~ScalarOutOfRange(a[s].param)
          /\ a[s].channel \notin {"PAULI_CHANNEL_1", "PAULI_CHANNEL_2"}
          /\ IF s = "two_qubit_gate_noise"
             THEN a[s].channel \in TwoQubitNoiseChannels
             ELSE a[s].channel \in OneQubitNoiseChannels
    /\ 0 <= a.measurement_noise /\ a.measurement_noise < One

BadPairing(s, a) ==
    /\ a[s].given
    /\ IF s = "two_qubit_gate_noise"
       THEN a[s].channel \notin TwoQubitNoiseChannels
       ELSE a[s].channel \notin OneQubitNoiseChannels

\* the slots tested before slot s
Earlier(s) == {SlotNames[j] : j \in {i \in 1..Len(SlotNames) :
                  \E k \in 1..Len(SlotNames) : SlotNames[k] = s /\ i < k}}

\* a valid parameter: a number in [0,1) for a plain channel, the tuple of the
\* required length for a biased channel
ValidParam(ch, param) ==
    IF ch \in {"PAULI_CHANNEL_1", "PAULI_CHANNEL_2"}
    THEN ~WrongPauliLength(ch, param)
    ELSE ~param.tuple /\ ~ScalarOutOfRange(param)

LegalArgs(a) ==
    /\ \A s \in Slots : a[s].given =>
          ~BadPairing(s, a) /\ ValidParam(a[s].channel, a[s].param)
    /\ 0 <= a.measurement_noise /\ a.measurement_noise < One

\* C8: a slot given a channel of the wrong kind makes the constructor raise
\* ValueError, with the message 'Invalid gate/noise pairing' when no earlier
\* argument is itself in error; every legal pairing with a valid parameter is
\* accepted.
C8_PairingChecked ==
    /\ \A s \in Slots : (pc # "new" /\ BadPairing(s, args)) =>
          /\ pc = "ValueError" /\ model = NoModel
          /\ (\A e \in Earlier(s) : SlotError(e, args[e]) = "") =>
                error = "Invalid gate/noise pairing"
    /\ (pc # "new" /\ LegalArgs(args)) =>
          pc = "constructed" /\ model = NewNoiseModel(args)

\* reset_noise=(DEPOLARIZE2, 0.001) after legal earlier arguments raised
C8_Witness ==
    /\ pc = "ValueError"
    /\ error = "Invalid gate/noise pairing"
    /\ args.two_qubit_gate_noise.given /\ args.one_qubit_gate_noise.given
    /\ args.reset_noise = Pair("DEPOLARIZE2", Scalar(1))

\* ------------------------------------------------ claims on the first pass
\* one iteration of the for loop of permute_circuit over the instruction Current
LoopStep == pc = "permute_circuit" /\ idx < Len(circuit) /\ idx' = idx + 1

\* a parameter that is not zero: a number other than 0, a tuple with entries
Nonzero(param) == IF param.tuple THEN param.val # <<>> ELSE param.val # <<0>>

Tick == Instr("TICK", <<>>, <<>>)

\* what the claims say an MR instruction becomes (stim names MZ M and RZ R)
SplitMR(m, instr) ==
    <<Instr("M", instr.targets, <<m.measurement_noise_parameter>>),
      Tick,
      Instr("R", instr.targets, <<>>)>>
    \o (IF Nonzero(m.reset_noise.param)
        THEN <<Instr(m.reset_noise.channel, instr.targets, m.reset_noise.param.val)>>
        ELSE <<>>)

\* C1: the pass replaces an MR instruction by a measurement carrying the
\* measurement-flip parameter, a TICK, a reset, and the reset-noise channel
\* exactly when the reset-noise parameter is nonzero, in this order and on the
\* MR's targets; the MR itself is not emitted.
C1_MeasureAndResetSplit ==
    [][(LoopStep /\ Current.name = "MR") =>
          noisy_circuit' = noisy_circuit \o SplitMR(model, Current)]_vars

C1_Witness ==
    /\ pc = "returned"
    /\ circuit = <<Instr("H", <<1>>, <<>>), Instr("MR", <<0, 1>>, <<>>)>>
    /\ Nonzero(model.reset_noise.param)
    /\ SubSeq(noisy_circuit, Len(noisy_circuit) - 3, Len(noisy_circuit))
          = SplitMR(model, circuit[2])

\* the slot whose noise follows a gate
SlotOf(n) ==
    IF n \in OneQubitGates THEN "one_qubit_gate_noise"
    ELSE IF n \in TwoQubitGates THEN "two_qubit_gate_noise"
    ELSE "reset_noise"

C3_MeasurementArgument ==
    [][(LoopStep /\ Current.name \in {"M", "MX", "MY", "MZ"}) =>
          noisy_circuit' =
              Append(noisy_circuit,
                     Instr(Current.name, Current.targets,
                           <<model.measurement_noise_parameter>>))]_vars

C3_Witness ==
    /\ pc = "returned"
    /\ circuit = <<Instr("MX", <<0>>, <<5>>)>>
    /\ model.measurement_noise_parameter = 10
    /\ result = <<Instr("MX", <<0>>, <<10>>)>>

GateTables ==
    OneQubitGates \cup TwoQubitGates \cup ResetGates \cup MeasurementGates
        \cup MeasureAndReset

\* C4: the pass emits DETECTOR, OBSERVABLE_INCLUDE, QUBIT_COORDS, TICK and every
\* instruction whose name is in no gate table unchanged, and emits no noise
\* for it, whatever the noise configuration.
C4_StructuralPassthrough ==
    [][(LoopStep /\ (Current.name \in StimDecorators \/ Current.name \notin GateTables)) =>
          noisy_circuit' = Append(noisy_circuit, Current)]_vars

C4_Witness ==
    /\ pc = "returned"
    /\ circuit = <<Instr("SWAP", <<0, 1>>, <<>>), Instr("DETECTOR", <<0 - 1>>, <<>>)>>
    /\ Nonzero(model.two_qubit_gate_noise.param)
    /\ Nonzero(model.one_qubit_gate_noise.param)
    /\ result = circuit

\* every slot of the model is at zero
AllZero(m) ==
    /\ \A s \in Slots : ~Nonzero(m[s].param)
    /\ m.measurement_noise_parameter = 0

\* the circuit with the argument of every measurement instruction set to 0
ZeroMeasurementArgs(c) ==
    [i \in 1..Len(c) |->
        IF c[i].name \in MeasurementGates \cup MeasureAndReset
        THEN [c[i] EXCEPT !.args = <<0>>]
        ELSE c[i]]

\* C5 as stated: under the all-zero model permute_circuit returns the input
\* with every measurement argument set to 0, for every input circuit.
C5_AllZeroIsInput ==
    (pc = "returned" /\ AllZero(model)) => result = ZeroMeasurementArgs(circuit)

\* C5 amended: under the all-zero model permute_circuit returns the input with
\* the argument of every M, MX, MY, MZ set to 0 and every MR replaced by a
\* measurement with argument 0, a TICK and a reset on its targets.
C5_AllZeroSplitsMR ==
    (pc = "returned" /\ AllZero(model)) =>
        result = Concat([i \in 1..Len(circuit) |->
                            IF circuit[i].name = "MR"
                            THEN <<Instr("M", circuit[i].targets, <<0>>), Tick,
                                   Instr("R", circuit[i].targets, <<>>)>>
                            ELSE <<ZeroMeasurementArgs(circuit)[i]>>], 1)

C5_Witness ==
    /\ pc = "returned"
    /\ AllZero(model)
    /\ \E i, j, k \in 1..Len(circuit) :
          /\ circuit[i].name = "MR"
          /\ circuit[j].name = "MX"
          /\ circuit[k].name = "CX"

\* ------------------------------------------- claims on the idle-noise pass
\* the idle-noise pass has returned
IdleDone ==
    \/ pc = "idle_returned"
    \/ pc = "returned" /\ Truthy(model.idle_noise.param)

\* the circuit the idle-noise pass was given
IdleInput == IF pc = "idle_returned" THEN circuit ELSE noisy_circuit

RemoveAt(s, j) == SubSeq(s, 1, j - 1) \o SubSeq(s, j + 1, Len(s))

\* union of the targets of the layer's instructions other than the decorators
NonStructuralTargets(layer) ==
    UNION {{layer[i].targets[j] : j \in 1..Len(layer[i].targets)} :
              i \in {k \in 1..Len(layer) : layer[k].name \notin StimDecorators}}

\* C9: a layer's idle set is Q minus the targets of its non-structural
\* instructions, and the layer receives one idle-noise instruction on exactly
\* that set if and only if the set is not empty; a declared qubit a layer
\* touches only by QUBIT_COORDS is idle in it.
C9_IdleSetIgnoresStructural ==
    (IdleDone /\ Nonzero(model.idle_noise.param)) =>
        LET lin  == get_circuit_layers(IdleInput)
            lout == get_circuit_layers(result)
        IN  /\ Len(lout) = Len(lin)
            /\ \A k \in 1..Len(lin) :
                  LET idle == qubit_indices(IdleInput) \ NonStructuralTargets(lin[k])
                  IN  IF idle = {} THEN lout[k] = lin[k]
                      ELSE \E j \in 1..Len(lout[k]) :
                              /\ lout[k][j] = IdleInstr(model, idle)
                              /\ RemoveAt(lout[k], j) = lin[k]

\* C10: a final layer without a closing TICK and with a non-empty idle set gets
\* the idle-noise instruction appended after all of its instructions.
C10_FinalLayerAppend ==
    (IdleDone /\ Nonzero(model.idle_noise.param)) =>
        LET lin  == get_circuit_layers(IdleInput)
            lout == get_circuit_layers(result)
            last == lin[Len(lin)]
        IN  (last # <<>> /\ idle_qubits(IdleInput, last) # {}) =>
                lout[Len(lout)] = Append(last, IdleInstr(model, idle_qubits(IdleInput, last)))

\* a layer that ends with a TICK
EndsWithTick(layer) == layer # <<>> /\ layer[Len(layer)] = Tick

GateTargets(layer) ==
    UNION {{layer[i].targets[j] : j \in 1..Len(layer[i].targets)} :
              i \in {k \in 1..Len(layer) : layer[k].name \in GateTables}}

\* the output layer is the input layer with one idle-noise instruction inserted
OneInserted(m, lin, lout) ==
    \E j \in 1..Len(lout) :
        /\ RemoveAt(lout, j) = lin
        /\ lout[j].name = StimName(m.idle_noise.channel)
        /\ lout[j].args = m.idle_noise.param.val

\* C12: the idle-noise pass keeps every layer's active-qubit set and puts at
\* most one idle-noise instruction into a layer: each output layer is the
\* input layer, or the input layer with one idle-noise instruction inserted.
C12_OneInsertionPerLayer ==
    IdleDone =>
        LET lin  == get_circuit_layers(IdleInput)
            lout == get_circuit_layers(result)
        IN  /\ Len(lout) = Len(lin)
            /\ \A k \in 1..Len(lin) :
                  /\ GateTargets(lout[k]) = GateTargets(lin[k])
                  /\ lout[k] = lin[k] \/ OneInserted(model, lin[k], lout[k])

\* the pass has returned a circuit with a layer it inserted idle noise into,
\* one with a gate, and a layer it left alone
C12_Witness ==
    /\ IdleDone
    /\ \E k, l \in 1..Len(get_circuit_layers(IdleInput)) :
          /\ get_circuit_layers(result)[k] # get_circuit_layers(IdleInput)[k]
          /\ GateTargets(get_circuit_layers(IdleInput)[k]) # {}
          /\ get_circuit_layers(result)[l] = get_circuit_layers(IdleInput)[l]
          /\ get_circuit_layers(IdleInput)[l] # <<>>

\* ------------------------------------------- claims on permute_circuit as a whole
HasQubitCoords(c) == \E i \in 1..Len(c) : c[i].name = "QUBIT_COORDS"

\* permute_circuit returns or raises in this step
PermuteExit == pc = "permute_circuit" /\ pc' # pc

\* C13: permute_circuit raises ValueError, and returns no circuit, exactly when
\* the idle-noise parameter is nonzero and the circuit has no QUBIT_COORDS; in
\* every other case it returns.
C13_RaisesIffNoQubits ==
    [][PermuteExit =>
          /\ (pc' = "ValueError") <=>
                 (Nonzero(model.idle_noise.param) /\ ~HasQubitCoords(circuit))
          /\ (pc' = "ValueError") =>
                 (result' = <<>> /\ error' = "You must define qubit entries")
          /\ (pc' # "ValueError") => (pc' = "returned" /\ error' = "")]_vars

\* permute_circuit has raised after its loop over a circuit with instructions
C13_Witness ==
    /\ pc = "ValueError"
    /\ Len(circuit) > 0
    /\ idx = Len(circuit)
    /\ noisy_circuit # <<>>
    /\ Nonzero(model.idle_noise.param)

\* C14: no step of permute_circuit, the return and the raise included, changes
\* the NoiseModel (its four channel/parameter pairs and its measurement
\* parameter) or the input circuit.
C14_ModelAndInputUnchanged ==
    [][pc = "permute_circuit" =>
          /\ model' = model
          /\ circuit' = circuit
          /\ args' = args]_vars

\* permute_circuit has returned a circuit that differs from its input, both
\* passes having run
C14_Witness ==
    /\ pc = "returned"
    /\ Truthy(model.idle_noise.param)
    /\ noisy_circuit # circuit
    /\ result # noisy_circuit
    /\ model = NewNoiseModel(args)

\* ------------------------------------------------ claims on circuit layering
TickPositions(c) == {i \in 1..Len(c) : c[i].name = "TICK"}

\* the position of the last TICK of the circuit, 0 when it has none
LastTick(c) ==
    IF TickPositions(c) = {} THEN 0
    ELSE CHOOSE i \in TickPositions(c) : \A j \in TickPositions(c) : j <= i

LayersAsClaimed(c) ==
    LET layers == get_circuit_layers(c)
        n      == Len(layers)
    IN  /\ Concat(layers, 1) = c
        /\ n = Cardinality(TickPositions(c)) + 1
        /\ \A k \in 1..(n - 1) :
              /\ EndsWithTick(layers[k])
              /\ TickPositions(layers[k]) = {Len(layers[k])}
        /\ TickPositions(layers[n]) = {}
        /\ layers[n] = SubSeq(c, LastTick(c) + 1, Len(c))

\* C16: the layers of get_circuit_layers are the circuit in source order, one
\* more than the circuit has TICKs; every layer but the last ends with its only
\* TICK; the last layer has no TICK and is the instructions after the final
\* TICK, empty when the circuit ends with a TICK.
C16_LayersSplitAtTicks ==
    /\ LayersAsClaimed(circuit)
    /\ LayersAsClaimed(noisy_circuit)

\* add_idle_noise has layered a circuit with a TICK in the middle and one at the
\* end, and one with instructions after its only TICK
C16_Witness ==
    /\ pc = "idle_returned"
    /\ \/ TickPositions(circuit) = {2, Len(circuit)} /\ Len(circuit) > 2
       \/ TickPositions(circuit) = {2} /\ Len(circuit) > 2

\* ------------------------------------------- claims on error-model extraction
IsError(event) == event.type = "error"

\* the error-type events of the error model, in enumeration order
ErrorEvents(d) == SelectSeq(d, IsError)

\* the extraction has ended, by a return or by an exception
ExtractionEnded == pc \in {"extracted", "IndexError"}

\* column j of both matrices holds the symptoms of the event
ColumnIs(j, event) ==
    /\ \A d \in 1..Len(parity_check) :
          parity_check[d][j] = IF (d - 1) \in TargetVals(event, "D") THEN 1 ELSE 0
    /\ \A o \in 1..Len(logical_check) :
          logical_check[o][j] = IF (o - 1) \in TargetVals(event, "L") THEN 1 ELSE 0

C18_ShapesAndEntries ==
    (pc = "extracted" /\ ErrorEvents(dem) # <<>>) =>
        /\ Len(parity_check) = num_detectors(dem)
        /\ Len(logical_check) = num_observables(dem)
        /\ \A d \in 1..Len(parity_check) :
              /\ Len(parity_check[d]) = Len(error_probabilities)
              /\ \A j \in 1..Len(parity_check[d]) : parity_check[d][j] \in {0, 1}
        /\ \A o \in 1..Len(logical_check) :
              /\ Len(logical_check[o]) = Len(error_probabilities)
              /\ \A j \in 1..Len(logical_check[o]) : logical_check[o][j] \in {0, 1}

\* matrices of two detectors and an observable have been returned for an
\* error model with error events and an event of another type
C18_Witness ==
    /\ pc = "extracted"
    /\ Len(ErrorEvents(dem)) >= 2
    /\ Len(ErrorEvents(dem)) < Len(dem)
    /\ Len(parity_check) = 2
    /\ Len(logical_check) = 1

\* C19: in the returned matrices parity_check[d][j] is 1 if mechanism j
\* triggers detector d and 0 otherwise, logical_check[o][j] is 1 if mechanism
\* j triggers observable o and 0 otherwise; the toy error model gives
\* H = [[1,1,1,0,0],[0,1,0,1,1]] and L = [0,0,1,0,1].
C19_EntriesAreSymptoms ==
    pc = "extracted" =>
        /\ \A j \in 1..Len(ErrorEvents(dem)) :
              /\ \A d \in 0..(num_detectors(dem) - 1) :
                    parity_check[d + 1][j] = 1
                        <=> DetectorId(d) \in
                               {ErrorEvents(dem)[j].targets[k] :
                                   k \in 1..Len(ErrorEvents(dem)[j].targets)}
              /\ \A o \in 0..(num_observables(dem) - 1) :
                    logical_check[o + 1][j] = 1
                        <=> ObservableId(o) \in
                               {ErrorEvents(dem)[j].targets[k] :
                                   k \in 1..Len(ErrorEvents(dem)[j].targets)}
        /\ \A d \in 1..Len(parity_check) : \A j \in 1..Len(parity_check[d]) :
              parity_check[d][j] # 1 => parity_check[d][j] = 0
        /\ \A o \in 1..Len(logical_check) : \A j \in 1..Len(logical_check[o]) :
              logical_check[o][j] # 1 => logical_check[o][j] = 0
        /\ dem = ToyDem =>
              /\ parity_check = << <<1, 1, 1, 0, 0>>, <<0, 1, 0, 1, 1>> >>
              /\ logical_check = << <<0, 0, 1, 0, 1>> >>

\* the matrices of the toy error model have been returned
C19_Witness ==
    /\ pc = "extracted"
    /\ dem = ToyDem
    /\ Len(error_probabilities) = 5

\* ------------------------------------------- claims on the noisy-circuit check
\* the circuit has a noise-channel instruction or a measurement M, MX, MY or MZ
\* with an argument greater than 0
HasNoise(c) ==
    \E i \in 1..Len(c) :
        \/ c[i].name \in {"DEPOLARIZE1", "PAULI_CHANNEL_1", "X_ERROR", "Y_ERROR",
                           "Z_ERROR", "DEPOLARIZE2", "PAULI_CHANNEL_2"}
        \/ /\ c[i].name \in {"M", "MX", "MY", "MZ"}
           /\ \E k \in 1..Len(c[i].args) : c[i].args[k] > 0

\* Sampler.__call__ or Decoder.__init__ has been entered
NoiseCheckEntry == pc \in {"Sampler.__call__", "Decoder.__init__"}

\* C20: check_if_noisy_circuit is true exactly of the circuits with a
\* noise-channel instruction or a measurement with an argument greater than 0,
\* and the first step of Sampler.__call__ and of a Decoder's construction
\* raises NoNoiseInCircuitError exactly when it is false, nothing having been
\* sampled or decoded.
C20_NoiseCheckGuardsEntry ==
    [][NoiseCheckEntry =>
          /\ check_if_noisy_circuit(circuit) <=> HasNoise(circuit)
          /\ (pc' = "NoNoiseInCircuitError") <=> ~HasNoise(circuit)
          /\ (pc' = "NoNoiseInCircuitError") =>
                 /\ result' = <<>>
                 /\ error' = "Circuit passed has no noise; decoding will have no effect."
          /\ HasNoise(circuit) =>
                 pc' \in {"compile_detector_sampler", "Decoder.__init__ returned"}]_vars

\* NoNoiseInCircuitError has been raised for a circuit with a measurement of
\* argument 0 and a measure-and-reset with an argument
C20_Witness ==
    /\ pc = "NoNoiseInCircuitError"
    /\ \E i, j \in 1..Len(circuit) :
          /\ circuit[i] = Instr("M", <<0>>, <<0>>)
          /\ circuit[j].name = "MR"

\* ------------------------------------- further claims on the idle-noise pass
\* the instruction is not one of the idle channel with the idle parameter
NotIdleNoise(instr) ==
    ~ /\ instr.name = StimName(model.idle_noise.channel)
      /\ instr.args = model.idle_noise.param.val

\* C26: the output of the idle-noise pass without the idle-noise instructions
\* it inserted is exactly the input circuit: no input instruction is dropped,
\* duplicated, altered or reordered, in a final layer without TICK either.
C26_OrderPreserving ==
    IdleDone =>
        /\ SelectSeq(IdleInput, NotIdleNoise) = IdleInput
        /\ SelectSeq(result, NotIdleNoise) = IdleInput

\* the pass has inserted idle noise into a final layer without a closing TICK
\* that follows another layer
C26_Witness ==
    /\ IdleDone
    /\ LET lin == get_circuit_layers(IdleInput)
           lout == get_circuit_layers(result)
       IN  /\ Len(lin) >= 2
           /\ lin[Len(lin)] # <<>>
           /\ lout[Len(lin)] # lin[Len(lin)]
           /\ lin[1] # <<>>

\* every target of every QUBIT_COORDS instruction of the circuit
DeclaredQubits(c) ==
    UNION {{c[i].targets[j] : j \in 1..Len(c[i].targets)} :
              i \in {k \in 1..Len(c) : c[k].name = "QUBIT_COORDS"}}

\* C27: the declared qubit set the idle-noise pass has used is the set of all
\* targets of the QUBIT_COORDS instructions of its input circuit, wherever
\* they stand, and nothing else.
C27_DeclaredSetIsAllTargets ==
    IdleDone => qubit_indices(IdleInput) = DeclaredQubits(IdleInput)

\* ------------------------------------------------------ claims on sampling
\* the shot has at least one triggered detector
Triggered(shot) == \E d \in 1..Len(shot.syn) : shot.syn[d] = TRUE

\* what a returned call holds
ReturnedShots ==
    pc = "sampler_returned" =>
        /\ Len(result[1]) = num_shots
        /\ Len(result[2]) = num_shots
        /\ \A i \in 1..num_shots :
              /\ result[1][i] = IntBits(syndrome_batch[i])
              /\ result[2][i] = observable_batch[i]
              /\ exclude_empty => \E d \in 1..Len(result[1][i]) : result[1][i][d] = 1

\* a pass of the while loop
LoopPass == pc = "while" /\ pc' = "while" /\ batch' # batch

\* what a step of the loop does
LoopAsClaimed ==
    /\ LoopPass =>
          /\ Len(batch') = num_shots
          /\ syndrome_batch' = syndrome_batch \o
                [i \in 1..Len(SelectSeq(batch', Triggered)) |->
                    SelectSeq(batch', Triggered)[i].syn]
          /\ observable_batch' = observable_batch \o
                [i \in 1..Len(SelectSeq(batch', Triggered)) |->
                    SelectSeq(batch', Triggered)[i].ob]
    /\ (pc = "while" /\ pc' = "return") => Len(syndrome_batch) >= num_shots
    /\ (pc = "while" /\ Len(syndrome_batch) < num_shots) => pc' = "while"

\* C23: a returned call holds exactly num_shots syndromes and num_shots
\* observable outcomes, with and without exclude_empty; with exclude_empty
\* the loop goes on while fewer than num_shots shots are collected, every
\* batch has num_shots shots, the shots with a triggered detector are the ones
\* kept, in their order, and the result is the first num_shots collected.
C23_ExactlyNumShots == []ReturnedShots /\ [][LoopAsClaimed]_vars

\* a call with exclude_empty has returned after collecting more shots than
\* num_shots
C23_Witness ==
    /\ pc = "sampler_returned"
    /\ exclude_empty
    /\ num_shots > 1
    /\ Len(syndrome_batch) > num_shots
    /\ Len(result[1]) = num_shots

\* the call is entered with exclude_empty on a circuit that passes the noise
\* check, for a positive number of shots
ExcludingCall ==
    /\ pc = "Sampler.__call__"
    /\ exclude_empty
    /\ num_shots > 0
    /\ check_if_noisy_circuit(circuit)

\* C30: with exclude_empty and num_shots > 0 the call returns, given that the
\* detector sampler keeps producing shots with a non-empty syndrome; nothing
\* else bounds the number of batches, a batch without such a shot leaving the
\* loop where it was.
C30_ReturnsIfShotsKeepComing ==
    /\ ExcludingCall ~> (pc = "sampler_returned")
    /\ [][(LoopPass /\ SelectSeq(batch', Triggered) = <<>>) =>
              (syndrome_batch' = syndrome_batch /\ pc' = "while")]_vars

\* the call has returned after a batch with an empty syndrome in it
C30_Witness ==
    /\ pc = "sampler_returned"
    /\ exclude_empty
    /\ num_shots > 0
    /\ \E i \in 1..Len(batch) : ~Triggered(batch[i])

\* ------------------------------------------------- claims on the manager
\* the tasks of pool.map have been submitted
Submitted == pc \in {"pool.map", "manager_raised", "manager_returned"}

\* the shots handed to the workers, summed
ShotsHandedOut == SumTo([i \in 1..Len(workers) |-> workers[i].shots], Len(workers))

\* C21: the shot counts handed to the cores worker processes sum to
\* num_shots, so that no shot of the budget is dropped.
C21_BudgetPartitioned ==
    Submitted => /\ Len(workers) = cores
                 /\ ShotsHandedOut = num_shots

\* the mean and variance of the values of all cores tasks
AggregateOfAll ==
    <<np_mean(Results(workers)), np_var(Results(workers))>>

\* a task has raised
SomeFailed == \E i \in 1..Len(workers) : workers[i].state = "failed"

\* a return uses the values of all cores tasks, none of which has raised
ReturnUsesAll ==
    pc = "manager_returned" =>
        /\ Len(workers) = cores
        /\ \A i \in 1..cores : workers[i].state = "done"
        /\ result = AggregateOfAll

\* with a failed task the call does not return, and it leaves pool.map by
\* raising
FailureRaises ==
    SomeFailed =>
        /\ pc' # "manager_returned"
        /\ (pc = "pool.map" /\ pc' # pc) => (pc' = "manager_raised" /\ result' = result)

\* C22: if the computation raises in any worker, run raises and returns no
\* (mean, standard deviation) pair; an aggregate is never computed from fewer
\* than cores results, in whatever order the workers finish.
C22_FailurePropagates == []ReturnUsesAll /\ [][FailureRaises]_vars

\* the call has raised: the first task raised, the last one returned
C22_Witness ==
    /\ pc = "manager_raised"
    /\ cores >= 2
    /\ workers[1].state = "failed"
    /\ workers[cores].state = "done"
    /\ result = <<>>

\* ------------------------------------------- claims on belief propagation
\* the number of columns of a matrix given as a list of rows
Columns(H) == Len(H[1])

\* the claimed entry for detector row i: s[i] plus the row's product with e
ClaimedEntry(i) ==
    (syndrome[i]
       + SumTo([j \in 1..Columns(parity_check) |->
                  parity_check[i][j] * error_pattern[j]],
               Columns(parity_check))) % 2

\* C24: update_syndrome_from_error_pattern(s, e) returns, for every detector
\* row i of H, (s[i] + sum over j of H[i][j] * e[j]) mod 2; for binary s and e
\* every entry of the result is 0 or 1.
C24_UpdateIsMod2 ==
    (pc = "syndrome_updated" /\ Len(error_pattern) = Columns(parity_check)) =>
        /\ Len(result) = Len(parity_check)
        /\ \A i \in 1..Len(parity_check) :
              /\ result[i] = ClaimedEntry(i)
              /\ result[i] \in Bits

\* an update where the plain sum of a row is 2 or more
C24_Witness ==
    /\ pc = "syndrome_updated"
    /\ Len(error_pattern) = Columns(parity_check)
    /\ \E i \in 1..Len(parity_check) :
          /\ RowSyndromePlain(parity_check[i], error_pattern, syndrome[i]) >= 2
          /\ result[i] = 0

\* --------------------------------------------------- claims on the decoders
\* the options with the OSD fields left out
WithoutOSD(o) ==
    PostInit(Options(o.max_iterations, o.message_updates,
                     o.min_sum_scaling_factor, NotGiven, NotGiven))

\* a decoder of class cls has been constructed
Constructed(cls) == pc = "constructed" /\ args.cls = cls

\* C25: after BeliefPropagation is constructed with any osd_method and
\* osd_order, decoder_options.osd_method and decoder_options.osd_order are None
\* and the decoder object is the plain belief-propagation decoder that is built
\* when no OSD option is given.
C25_OSDOptionsHaveNoEffect ==
    Constructed("BeliefPropagation") =>
        /\ decoder_options.osd_method = NotGiven
        /\ decoder_options.osd_order = NotGiven
        /\ decoder = decoder_setter(WithoutOSD(args.decoder_options))

\* the construction of a BPOSD has ended
BPOSDEnded == args.cls = "BPOSD" /\ pc \in {"constructed", "ValueError"}

\* C28: BPOSD is constructed with each of the OSD methods ZERO, EXHAUSTIVE and
\* COMBINATION_SWEEP and then holds a BPOSD decoder with that method and its
\* derived osd_order; ValueError is raised only when osd_method is None.
C28_BPOSDTakesEveryMethod ==
    BPOSDEnded =>
        /\ pc = "ValueError" <=> ~args.decoder_options.osd_method.given
        /\ pc = "constructed" =>
              /\ decoder.kind = "bposd_decoder"
              /\ decoder.osd_method = args.decoder_options.osd_method
              /\ decoder.osd_order = args.decoder_options.osd_order

\* ------------------------------------------------ claims on DepolarizingNoise
\* the derived parameters follow physical_error
DerivedFollow(dn) ==
    /\ dn.two_qubit_gate_noise = dn.physical_error
    /\ dn.measurement_noise = dn.physical_error
    /\ 10 * dn.single_qubit_gate_noise = dn.physical_error
    /\ 10 * dn.reset_noise = dn.physical_error

\* C29: every DepolarizingNoise instance reached by construction and any
\* sequence of assignments to physical_error has 0 < physical_error < 1, a
\* value outside (0, 1) being rejected at construction and on assignment, and
\* its derived parameters are physical_error and physical_error / 10.
C29_PhysicalErrorStaysInRange ==
    pc = "depolarizing_constructed" =>
        /\ 0 < model.physical_error
        /\ model.physical_error < One
        /\ DerivedFollow(model)

====
